---- MODULE Spec2Model ----
(***************************************************************************)
(* A model of the AgroBert backend (src/app.py): the credential table,     *)
(* the process-wide OTP table, the login / register / send-otp /           *)
(* reset-password handlers and the rule-based chat intent router.          *)
(*                                                                         *)
(* Python strings are sequences of one-character strings, so that          *)
(* startswith, len, lower, capitalize and the substring test `in` are      *)
(* computed character by character.  A character outside ASCII is named by *)
(* its code point ("U+0917").  JSON null / a missing dict key are the two  *)
(* values None and Absent, which are no strings.  The field values of the  *)
(* requests are strings, null or absent.                                   *)
(*                                                                         *)
(* In Spec and SpecChat each handler is one step: requests arrive one      *)
(* after the other, and req / resp record the request handled last and its *)
(* answer.  The history variables record which code send-otp generated, so *)
(* that the properties can speak about "the issued code".  In SpecRace     *)
(* send-otp and reset-password requests for one user run in threads of the *)
(* server (app.run serves each request in its own thread); a step is one   *)
(* SQLite statement or one operation on the dict otp_store, which is what  *)
(* the interpreter lock keeps atomic.  Failures of the database connection *)
(* are not modelled.                                                       *)
(***************************************************************************)
EXTENDS Integers, Sequences, FiniteSets, TLC

VARIABLES
  users,           \* the rows of table users, in rowid order
  otp_store,       \* the dict otp_store: username -> code
  twilio_client,   \* TRUE iff the Twilio client was configured at start-up
  GEMINI_ENABLED,  \* TRUE iff the Gemini model was configured at start-up
  req,             \* the request handled last
  resp,            \* the response returned to it
  resolved,        \* history: the username the last send-otp / reset-password resolved, else None
  issued,          \* history: username -> the code the latest send-otp generated for it
  superseded,      \* history: username -> the codes earlier send-otp generated, less the latest
  consumed,        \* history: usernames whose latest code a reset-password has since accepted
  th               \* the requests in flight: thread -> its request, locals and position

vars == <<users, otp_store, twilio_client, GEMINI_ENABLED, req, resp,
          resolved, issued, superseded, consumed, th>>

----------------------------------------------------------------------------
\* Bounds of the model

MaxUsers == 3
MaxThreads == 3

----------------------------------------------------------------------------
\* Python values

None == <<"<None>">>
Absent == <<"<absent>">>

IsStr(v) == v # None /\ v # Absent

\* dict.get(key, default)
DictGetDefault(v, default) == IF v = Absent THEN default ELSE v

\* truthiness of a str-or-None value, as all([...]) tests it
Truthy(v) == v # None /\ v # Absent /\ v # <<>>

Digit(d) == CASE d = 0 -> "0" [] d = 1 -> "1" [] d = 2 -> "2" [] d = 3 -> "3" [] d = 4 -> "4"
              [] d = 5 -> "5" [] d = 6 -> "6" [] d = 7 -> "7" [] d = 8 -> "8" [] d = 9 -> "9"

\* str(n) of a non-negative int
RECURSIVE str(_)
str(n) == IF n < 10 THEN <<Digit(n)>> ELSE Append(str(n \div 10), Digit(n % 10))

\* s.startswith(prefix)
startswith(s, prefix) == Len(s) >= Len(prefix) /\ SubSeq(s, 1, Len(prefix)) = prefix

\* needle in haystack, for two strs
Contains(haystack, needle) ==
  \E i \in 0..(Len(haystack) - Len(needle)) : SubSeq(haystack, i + 1, i + Len(needle)) = needle

UpperChars == <<"A","B","C","D","E","F","G","H","I","J","K","L","M",
                "N","O","P","Q","R","S","T","U","V","W","X","Y","Z">>
LowerChars == <<"a","b","c","d","e","f","g","h","i","j","k","l","m",
                "n","o","p","q","r","s","t","u","v","w","x","y","z">>

LowerChar(c) == IF \E i \in 1..26 : UpperChars[i] = c
                THEN LowerChars[CHOOSE i \in 1..26 : UpperChars[i] = c] ELSE c
UpperChar(c) == IF \E i \in 1..26 : LowerChars[i] = c
                THEN UpperChars[CHOOSE i \in 1..26 : LowerChars[i] = c] ELSE c

\* s.lower()
lower(s) == [i \in 1..Len(s) |-> LowerChar(s[i])]

\* s.capitalize(): first character upper-cased, the rest lower-cased
capitalize(s) == [i \in 1..Len(s) |-> IF i = 1 THEN UpperChar(s[i]) ELSE LowerChar(s[i])]

----------------------------------------------------------------------------
\* String literals of the source and of the requests the model sends

\* commodity_keywords: per commodity the English, Hindi and Kannada keyword, in dict order
commodity_keywords ==
  << [commodity_en |-> <<"w", "h", "e", "a", "t">>,
      keywords |-> <<<<"w", "h", "e", "a", "t">>,
                     <<"U+0917", "U+0947", "U+0939", "U+0942", "U+0902">>,
                     <<"U+0C97", "U+0CCB", "U+0CA7", "U+0CBF">>>>],
     [commodity_en |-> <<"r", "i", "c", "e">>,
      keywords |-> <<<<"r", "i", "c", "e">>,
                     <<"U+091A", "U+093E", "U+0935", "U+0932">>,
                     <<"U+0C85", "U+0C95", "U+0CCD", "U+0C95", "U+0CBF">>>>],
     [commodity_en |-> <<"c", "o", "t", "t", "o", "n">>,
      keywords |-> <<<<"c", "o", "t", "t", "o", "n">>,
                     <<"U+0915", "U+092A", "U+093E", "U+0938">>,
                     <<"U+0CB9", "U+0CA4", "U+0CCD", "U+0CA4", "U+0CBF">>>>],
     [commodity_en |-> <<"o", "n", "i", "o", "n">>,
      keywords |-> <<<<"o", "n", "i", "o", "n">>,
                     <<"U+092A", "U+094D", "U+092F", "U+093E", "U+091C">>,
                     <<"U+0C88", "U+0CB0", "U+0CC1", "U+0CB3", "U+0CCD", "U+0CB3", "U+0CBF">>>>],
     [commodity_en |-> <<"p", "o", "t", "a", "t", "o">>,
      keywords |-> <<<<"p", "o", "t", "a", "t", "o">>,
                     <<"U+0906", "U+0932", "U+0942">>,
                     <<"U+0C86", "U+0CB2", "U+0CC2", "U+0C97", "U+0CA1", "U+0CCD", "U+0CA1", "U+0CC6">>>>],
     [commodity_en |-> <<"t", "o", "m", "a", "t", "o">>,
      keywords |-> <<<<"t", "o", "m", "a", "t", "o">>,
                     <<"U+091F", "U+092E", "U+093E", "U+091F", "U+0930">>,
                     <<"U+0C9F", "U+0CCA", "U+0CAE", "U+0CC6", "U+0C9F", "U+0CCA">>>>] >>
MARKET_KEYWORDS ==
  << <<"d", "e", "l", "h", "i">>,
     <<"m", "u", "m", "b", "a", "i">>,
     <<"b", "e", "n", "g", "a", "l", "u", "r", "u">>,
     <<"k", "o", "l", "k", "a", "t", "a">>,
     <<"c", "h", "e", "n", "n", "a", "i">>,
     <<"p", "u", "n", "e">>,
     <<"j", "a", "i", "p", "u", "r">>,
     <<"d", "a", "v", "a", "n", "a", "g", "e", "r", "e">>,
     <<"l", "u", "c", "k", "n", "o", "w">>,
     <<"k", "a", "n", "p", "u", "r">>,
     <<"n", "a", "g", "p", "u", "r">>,
     <<"i", "n", "d", "o", "r", "e">>,
     <<"t", "h", "a", "n", "e">>,
     <<"b", "h", "o", "p", "a", "l">>,
     <<"p", "a", "t", "n", "a">>,
     <<"s", "h", "i", "v", "a", "m", "o", "g", "g", "a">>,
     <<"l", "u", "d", "h", "i", "a", "n", "a">>,
     <<"a", "g", "r", "a">>,
     <<"n", "a", "s", "h", "i", "k">>,
     <<"v", "a", "d", "o", "d", "a", "r", "a">>,
     <<"m", "e", "e", "r", "u", "t">>,
     <<"r", "a", "j", "k", "o", "t">>,
     <<"v", "a", "r", "a", "n", "a", "s", "i">>,
     <<"h", "u", "b", "a", "l", "i">>,
     <<"a", "m", "r", "i", "t", "s", "a", "r">>,
     <<"a", "l", "l", "a", "h", "a", "b", "a", "d">>,
     <<"j", "o", "d", "h", "p", "u", "r">>,
     <<"k", "o", "c", "h", "i">>,
     <<"m", "y", "s", "u", "r", "u">>,
     <<"h", "y", "d", "e", "r", "a", "b", "a", "d">>,
     <<"b", "h", "u", "b", "a", "n", "e", "s", "w", "a", "r">> >>
greet_hello == <<"h", "e", "l", "l", "o">>
greet_hi == <<"h", "i">>
greet_kn == <<"U+0CA8", "U+0CAE", "U+0CB8", "U+0CCD", "U+0C95", "U+0CBE", "U+0CB0">>
greet_hin == <<"U+0928", "U+092E", "U+0938", "U+094D", "U+0924", "U+0947">>
bk_price_en == <<"p", "r", "i", "c", "e">>
bk_price_kn == <<"U+0CAC", "U+0CC6", "U+0CB2", "U+0CC6">>
bk_price_hi == <<"U+0926", "U+093E", "U+092E">>
bk_weather_en == <<"w", "e", "a", "t", "h", "e", "r">>
bk_weather_kn == <<"U+0CB9", "U+0CB5", "U+0CBE", "U+0CAE", "U+0CBE", "U+0CA8">>
bk_weather_hi == <<"U+092E", "U+094C", "U+0938", "U+092E">>
bk_recommend_en == <<"r", "e", "c", "o", "m", "m", "e", "n", "d">>
bk_recommend_kn == <<"U+0CB6", "U+0CBF", "U+0CAB", "U+0CBE", "U+0CB0", "U+0CB8", "U+0CC1">>
bk_recommend_hi == <<"U+0938", "U+0941", "U+091D", "U+093E", "U+0935">>
mk_Delhi == <<"D", "e", "l", "h", "i">>
q_what_is_the_price_of == <<"w", "h", "a", "t", " ", "i", "s", " ", "t", "h", "e", " ", "p", "r", "i", "c", "e", " ", "o", "f", " ">>
q_in == <<" ", "i", "n", " ">>
q_empty == <<>>
q_namaste == <<"n", "a", "m", "a", "s", "t", "e">>
q_Hello == <<"H", "e", "l", "l", "o", " ", "t", "h", "e", "r", "e">>
q_joke == <<"t", "e", "l", "l", " ", "m", "e", " ", "a", " ", "j", "o", "k", "e">>
q_WHEAT == <<"W", "H", "E", "A", "T", " ", "r", "a", "t", "e", " ", "a", "t", " ", "P", "U", "N", "E">>
q_price_today == <<"p", "r", "i", "c", "e", " ", "t", "o", "d", "a", "y">>
q_weather == <<"w", "e", "a", "t", "h", "e", "r", " ", "u", "p", "d", "a", "t", "e">>
q_recommend == <<"r", "e", "c", "o", "m", "m", "e", "n", "d", " ", "a", " ", "c", "r", "o", "p">>
q_dam == <<"U+0926", "U+093E", "U+092E">>
q_gehu_mumbai == <<"U+0917", "U+0947", "U+0939", "U+0942", "U+0902", " ", "m", "u", "m", "b", "a", "i">>
q_hi_wheat_weather == <<"h", "i", " ", "w", "h", "e", "a", "t", " ", "w", "e", "a", "t", "h", "e", "r">>
q_dam_weather_recommend == <<"U+0926", "U+093E", "U+092E", " ", "w", "e", "a", "t", "h", "e", "r", " ", "r", "e", "c", "o", "m", "m", "e", "n", "d">>
u_farmer == <<"f", "a", "r", "m", "e", "r">>
u_analyst == <<"a", "n", "a", "l", "y", "s", "t">>
u_ravi == <<"r", "a", "v", "i">>
u_nobody == <<"n", "o", "b", "o", "d", "y">>
e_farmer == <<"f", "a", "r", "m", "e", "r", "@", "e", "x", "a", "m", "p", "l", "e", ".", "c", "o", "m">>
e_analyst == <<"a", "n", "a", "l", "y", "s", "t", "@", "e", "x", "a", "m", "p", "l", "e", ".", "c", "o", "m">>
e_ravi == <<"r", "a", "v", "i", "@", "e", "x", "a", "m", "p", "l", "e", ".", "c", "o", "m">>
m_farmer == <<"+", "9", "1", "9", "8", "7", "6", "5", "4", "3", "2", "1", "0">>
m_analyst == <<"+", "9", "1", "9", "8", "7", "6", "5", "4", "3", "2", "1", "1">>
m_noplus11 == <<"9", "8", "7", "6", "5", "4", "3", "2", "1", "0", "0">>
m_plus10 == <<"+", "9", "8", "7", "6", "5", "4", "3", "2", "1">>
m_plus11 == <<"+", "9", "8", "7", "6", "5", "4", "3", "2", "1", "0">>
p_farmer123 == <<"f", "a", "r", "m", "e", "r", "1", "2", "3">>
p_analyst123 == <<"a", "n", "a", "l", "y", "s", "t", "1", "2", "3">>
p_pw1 == <<"p", "w", "1">>
p_new1 == <<"n", "e", "w", "1">>
lang_en == <<"e", "n">>
lang_hi == <<"h", "i">>
lang_kn == <<"k", "n">>
lang_fr == <<"f", "r">>
g_text == <<"S", "o", "w", " ", "a", "f", "t", "e", "r", " ", "t", "h", "e", " ", "f", "i", "r", "s", "t", " ", "r", "a", "i", "n", ".">>
r_farmer == <<"f", "a", "r", "m", "e", "r">>
r_analyst == <<"a", "n", "a", "l", "y", "s", "t">>

----------------------------------------------------------------------------
\* Credential table

\* generate_password_hash: the salt is drawn by the caller
Salts == {"s1"}
generate_password_hash(password, salt) ==
  [method |-> "scrypt", salt |-> salt, hashval |-> <<"H", salt, password>>]

\* check_password_hash, for a str password
check_password_hash(pwhash, password) ==
  pwhash.hashval = <<"H", pwhash.salt, password>>

\* the two rows init_db inserts
SeedUsers ==
  << [username |-> u_farmer, password_hash |-> generate_password_hash(p_farmer123, "s1"),
      role |-> r_farmer, email |-> e_farmer, mobile |-> m_farmer],
     [username |-> u_analyst, password_hash |-> generate_password_hash(p_analyst123, "s1"),
      role |-> r_analyst, email |-> e_analyst, mobile |-> m_analyst] >>

Rows(table) == {table[i] : i \in 1..Len(table)}

\* a faulty variant: email is not declared UNIQUE
UniqueViolations_NoEmail(table, row) ==
  {c \in {"username", "mobile"} : \E r \in {table[i] : i \in 1..Len(table)} : r[c] = row[c]}

\* the UNIQUE columns of the table a new row collides on
UniqueViolations(table, row) ==
  {c \in {"username", "email", "mobile"} : \E r \in Rows(table) : r[c] = row[c]}

\* SELECT * FROM users WHERE username = ?
SelectByUsername(table, username) ==
  {r \in Rows(table) : r.username = username}

\* SELECT * FROM users WHERE username = ? OR email = ? OR mobile = ?
\* (fetchone returns one of the matching rows; SQL leaves the order open)
SelectByIdentifier(table, identifier) ==
  {r \in Rows(table) : r.username = identifier \/ r.email = identifier \/ r.mobile = identifier}

\* a faulty variant: the UPDATE has no WHERE clause
UpdatePassword_AllRows(table, username, pwhash) ==
  [i \in 1..Len(table) |-> [table[i] EXCEPT !.password_hash = pwhash]]

\* UPDATE users SET password_hash = ? WHERE username = ?
UpdatePassword(table, username, pwhash) ==
  [i \in 1..Len(table) |->
     IF table[i].username = username THEN [table[i] EXCEPT !.password_hash = pwhash]
     ELSE table[i]]

\* a faulty variant: the role claim is not the user's role
create_access_token_FixedRole(identity, role) == [identity |-> identity, role |-> r_analyst]

\* create_access_token(identity, additional_claims={"role": role})
create_access_token(identity, role) == [identity |-> identity, role |-> role]

----------------------------------------------------------------------------
\* OTP table

OTP_MIN == 100000
OTP_MAX == 999999

\* the codes random.randint(100000, 999999) draws in the model: both ends of the range
OtpDraws == {OTP_MIN, OTP_MAX}

\* a faulty variant: an existing entry is kept (setdefault)
OtpPut_KeepFirst(store, username, otp) ==
  [u \in DOMAIN store \cup {username} |-> IF u \in DOMAIN store THEN store[u] ELSE otp]

\* otp_store[username] = otp
OtpPut(store, username, otp) ==
  [u \in DOMAIN store \cup {username} |-> IF u = username THEN otp ELSE store[u]]

\* a faulty variant: the entry is not deleted
OtpDel_Keep(store, username) == store

\* if username in otp_store: del otp_store[username]
OtpDel(store, username) ==
  [u \in DOMAIN store \ {username} |-> store[u]]

\* a faulty variant: a missing entry is not checked for
OtpMatches_MissingOk(store, username, otp) ==
  username \notin DOMAIN store \/ store[username] = otp

\* not (user_to_reset not in otp_store or otp_store.get(user_to_reset) != otp)
OtpMatches(store, username, otp) ==
  ~(username \notin DOMAIN store \/ store[username] # otp)

\* a faulty variant: len(mobile) >= 10
MobileOk_Ge(mobile) == startswith(mobile, <<"+">>) /\ Len(mobile) >= 10

\* mobile.startswith('+') and len(mobile) > 10
MobileOk(mobile) == startswith(mobile, <<"+">>) /\ Len(mobile) > 10

----------------------------------------------------------------------------
\* Requests the model sends

NoRequest == [op |-> "none"]
NoResponse == [status |-> 0, msg |-> ""]

Response(status, msg) == [status |-> status, msg |-> msg]

LoginUsernames == {u_farmer, u_analyst, u_ravi, u_nobody}
LoginPasswords == {None, p_analyst123, p_pw1, p_new1}

RegUsernames == {<<>>, u_farmer, u_ravi}
RegPasswords == {None, p_pw1}
RegEmails == {None, e_farmer, e_ravi}
RegMobiles == {None, m_noplus11, m_plus10, m_plus11, m_farmer}

\* a well-formed registration, the requests that differ from it in one field, two that
\* collide with the seeded farmer on several columns, and one whose username is the seeded
\* farmer's email (a different column: no UNIQUE constraint compares them)
RegBase == [op |-> "register", username |-> u_ravi, password |-> p_pw1,
            email |-> e_ravi, mobile |-> m_plus11]
RegRequests ==
  {r \in [op : {"register"}, username : RegUsernames, password : RegPasswords,
          email : RegEmails, mobile : RegMobiles] :
     Cardinality({f \in {"username", "password", "email", "mobile"} : r[f] # RegBase[f]}) <= 1}
  \cup {[RegBase EXCEPT !.username = u_farmer, !.email = e_farmer],
        [RegBase EXCEPT !.username = u_farmer, !.email = e_farmer, !.mobile = m_farmer],
        [RegBase EXCEPT !.username = e_farmer]}

Identifiers == {None, u_farmer, e_farmer, m_farmer, e_ravi}
ResetOtps == {None} \cup {str(n) : n \in OtpDraws}
NewPasswords == {None, p_new1}

\* what twilio_client.messages.create does when the client is configured
SmsOutcomes == {"sent", "raises"}

----------------------------------------------------------------------------
\* POST /api/login

LoginResponses(table, username, password) ==
  LET found == SelectByUsername(table, username) IN
  IF found = {} THEN {Response(401, "Bad username or password")}
  ELSE { IF ~IsStr(password)
           THEN Response(500, "Login failed")       \* check_password_hash(hash, None) raises
         ELSE IF ~check_password_hash(user.password_hash, password)
           THEN Response(401, "Bad username or password")
         ELSE [status |-> 200, msg |-> "",
               access_token |-> create_access_token(username, user.role)]
         : user \in found }

Login ==
  \E username \in LoginUsernames, password \in LoginPasswords :
    /\ req' = [op |-> "login", username |-> username, password |-> password]
    /\ resp' \in LoginResponses(users, username, password)
    /\ resolved' = None
    /\ UNCHANGED <<users, otp_store, twilio_client, GEMINI_ENABLED,
                   issued, superseded, consumed, th>>

----------------------------------------------------------------------------
\* POST /api/register

ConflictMsg(column) ==
  CASE column = "username" -> "Username already exists"
    [] column = "email" -> "Email already exists"
    [] column = "mobile" -> "Mobile number already exists"

\* the possible outcomes of one register request on a table: the new table and the response
RegisterOutcomes(table, data) ==
  IF ~(Truthy(data.username) /\ Truthy(data.password) /\ Truthy(data.email) /\ Truthy(data.mobile))
    THEN {[users |-> table, resp |-> Response(400, "Missing required fields")]}
  ELSE IF ~MobileOk(data.mobile)
    THEN {[users |-> table,
           resp |-> Response(400, "Please provide mobile number in international format (e.g., +919876543210)")]}
  ELSE
    LET row(salt) == [username |-> data.username,
                      password_hash |-> generate_password_hash(data.password, salt),
                      role |-> r_farmer, email |-> data.email, mobile |-> data.mobile]
        violated == UniqueViolations(table, row("s1"))
    IN IF violated = {}
         THEN {[users |-> Append(table, row(salt)),
                resp |-> Response(201, "User created successfully")] : salt \in Salts}
       ELSE \* sqlite3.IntegrityError names one of the violated constraints
            {[users |-> table, resp |-> Response(409, ConflictMsg(c))] : c \in violated}

Register ==
  /\ \E data \in RegRequests :
       \E o \in RegisterOutcomes(users, data) :
         /\ Len(o.users) <= MaxUsers
         /\ req' = data
         /\ users' = o.users
         /\ resp' = o.resp
  /\ resolved' = None
  /\ UNCHANGED <<otp_store, twilio_client, GEMINI_ENABLED, issued, superseded, consumed, th>>

----------------------------------------------------------------------------
\* POST /api/send-otp

\* history: remember value v for username u
HistPut(h, u, v) == [x \in DOMAIN h \cup {u} |-> IF x = u THEN v ELSE h[x]]

\* a faulty variant: a Twilio exception is reported as a failure
SmsResponse_FailOnRaise(client, sms) ==
  IF client
    THEN IF sms = "sent"
           THEN Response(200, "OTP sent successfully to your mobile.")
         ELSE Response(500, "Failed to send OTP")
  ELSE Response(200, "OTP generated. For development, please check server console.")

\* the response once the code is stored: Twilio configured and sending, configured and
\* raising, or not configured
SmsResponse(client, sms) ==
  IF client
    THEN IF sms = "sent"
           THEN Response(200, "OTP sent successfully to your mobile.")
         ELSE Response(200, "Could not send SMS. For development, please check server console for OTP.")
  ELSE Response(200, "OTP generated. For development, please check server console.")

SendOtp ==
  \E identifier \in Identifiers :
    LET found == SelectByIdentifier(users, identifier) IN
    /\ req' = [op |-> "send-otp", identifier |-> identifier]
    /\ IF found = {}
         THEN /\ resp' = Response(404, "User not found")
              /\ resolved' = None
              /\ UNCHANGED <<otp_store, issued, superseded, consumed>>
       ELSE \E user \in found, otp \in OtpDraws, sms \in SmsOutcomes :
              LET found_username == user.username
                  code == str(otp)
              IN /\ otp_store' = OtpPut(otp_store, found_username, code)
                 /\ resp' = SmsResponse(twilio_client, sms)
                 /\ resolved' = found_username
                 /\ issued' = HistPut(issued, found_username, code)
                 /\ superseded' = HistPut(superseded, found_username,
                                          IF found_username \in DOMAIN issued
                                            THEN (superseded[found_username]
                                                    \cup {issued[found_username]}) \ {code}
                                          ELSE {})
                 /\ consumed' = consumed \ {found_username}
    /\ UNCHANGED <<users, twilio_client, GEMINI_ENABLED, th>>

----------------------------------------------------------------------------
\* POST /api/reset-password

\* the outcomes of one reset-password request once the SELECT returned the row `user`
ResetOutcome(table, store, user, otp, new_password) ==
  LET user_to_reset == user.username IN
  IF ~OtpMatches(store, user_to_reset, otp)
    THEN {[users |-> table, otp_store |-> store, resolved |-> user_to_reset,
           resp |-> Response(400, "Invalid or expired OTP")]}
  ELSE IF ~IsStr(new_password)
    THEN \* generate_password_hash(None) raises: caught by the handler's except Exception
         {[users |-> table, otp_store |-> store, resolved |-> user_to_reset,
           resp |-> Response(500, "Failed to reset password")]}
  ELSE {[users |-> UpdatePassword(table, user_to_reset,
                                  generate_password_hash(new_password, salt)),
         otp_store |-> OtpDel(store, user_to_reset), resolved |-> user_to_reset,
         resp |-> Response(200, "Password updated successfully")] : salt \in Salts}

ResetOutcomes(table, store, identifier, otp, new_password) ==
  LET found == SelectByIdentifier(table, identifier) IN
  IF found = {}
    THEN {[users |-> table, otp_store |-> store, resolved |-> None,
           resp |-> Response(404, "User not found")]}
  ELSE UNION {ResetOutcome(table, store, user, otp, new_password) : user \in found}

ResetPassword ==
  \E identifier \in Identifiers, otp \in ResetOtps, new_password \in NewPasswords :
    \E o \in ResetOutcomes(users, otp_store, identifier, otp, new_password) :
      /\ req' = [op |-> "reset-password", username |-> identifier, otp |-> otp,
                 new_password |-> new_password]
      /\ users' = o.users
      /\ otp_store' = o.otp_store
      /\ resp' = o.resp
      /\ resolved' = o.resolved
      /\ consumed' = IF o.resp.status = 200 THEN consumed \cup {o.resolved} ELSE consumed
      /\ UNCHANGED <<twilio_client, GEMINI_ENABLED, issued, superseded, th>>

----------------------------------------------------------------------------
\* POST /api/chat

\* a text of chat_responses[table][key]; price_detail carries the two names the template
\* substitutes (the simulated price is left out)
Canned(table, key) == [kind |-> key, table |-> table, commodity |-> None, market |-> None]
PriceDetail(table, commodity, market) ==
  [kind |-> "price_detail", table |-> table, commodity |-> commodity, market |-> market]
\* a text the Gemini model returned
Generated(text) == [kind |-> "generated", table |-> None, commodity |-> None, market |-> text]

\* chat_responses.get(lang, chat_responses['en']): the language table used
ResponsesTable(lang) == IF lang \in {lang_en, lang_hi, lang_kn} THEN lang ELSE lang_en

\* any(k in user_query for k in keywords)
AnyIn(keywords, user_query) == \E i \in 1..Len(keywords) : Contains(user_query, keywords[i])

GreetingKeywords == <<greet_hello, greet_hi, greet_kn, greet_hin>>
PriceKeywords == <<bk_price_en, bk_price_kn, bk_price_hi>>
WeatherKeywords == <<bk_weather_en, bk_weather_kn, bk_weather_hi>>
RecommendKeywords == <<bk_recommend_en, bk_recommend_kn, bk_recommend_hi>>

\* a for-loop with break: the index of the first element from i on that Hit accepts, else 0
RECURSIVE FirstFrom(_, _, _)
FirstFrom(hits, n, i) ==
  IF i > n THEN 0 ELSE IF hits[i] THEN i ELSE FirstFrom(hits, n, i + 1)

\* for commodity_en, keywords in commodity_keywords.items(): first entry with a keyword
\* in the query, 0 (None) when there is none
FoundCommodity(user_query) ==
  FirstFrom([i \in 1..Len(commodity_keywords) |->
               AnyIn(commodity_keywords[i].keywords, user_query)],
            Len(commodity_keywords), 1)

\* for market in MARKET_KEYWORDS: first market in the query, capitalized; "Delhi" otherwise
FoundMarket(user_query) ==
  LET i == FirstFrom([k \in 1..Len(MARKET_KEYWORDS) |-> Contains(user_query, MARKET_KEYWORDS[k])],
                     Len(MARKET_KEYWORDS), 1)
  IN IF i # 0 THEN capitalize(MARKET_KEYWORDS[i]) ELSE mk_Delhi

\* the name of the commodity shown: the keyword of the request's language, capitalized
DisplayCommodity(found, lang) ==
  LET lang_commodity_index == IF lang = lang_kn THEN 2 ELSE IF lang = lang_hi THEN 1 ELSE -1
      entry == commodity_keywords[found]
  IN IF lang_commodity_index # -1 /\ Len(entry.keywords) > lang_commodity_index
       THEN capitalize(entry.keywords[lang_commodity_index + 1])
     ELSE capitalize(entry.commodity_en)

\* a faulty variant: the commodity keywords are looked for before the greeting
RuleResponse_CommodityFirst(user_query, lang) ==
  LET table == IF lang \in {lang_en, lang_hi, lang_kn} THEN lang ELSE lang_en
      found == FoundCommodity(user_query)
  IN IF found # 0
       THEN PriceDetail(table, DisplayCommodity(found, lang), FoundMarket(user_query))
     ELSE IF AnyIn(GreetingKeywords, user_query) THEN Canned(table, "greeting")
     ELSE IF AnyIn(PriceKeywords, user_query) THEN Canned(table, "price")
     ELSE IF AnyIn(WeatherKeywords, user_query) THEN Canned(table, "weather")
     ELSE IF AnyIn(RecommendKeywords, user_query) THEN Canned(table, "recommend")
     ELSE Canned(table, "unmatched")

\* the rule-based part of handle_chat: the text, or "unmatched" when no rule matched
RuleResponse(user_query, lang) ==
  LET table == ResponsesTable(lang)
      found == FoundCommodity(user_query)
  IN IF AnyIn(GreetingKeywords, user_query) THEN Canned(table, "greeting")
     ELSE IF found # 0
       THEN PriceDetail(table, DisplayCommodity(found, lang), FoundMarket(user_query))
     ELSE IF AnyIn(PriceKeywords, user_query) THEN Canned(table, "price")
     ELSE IF AnyIn(WeatherKeywords, user_query) THEN Canned(table, "weather")
     ELSE IF AnyIn(RecommendKeywords, user_query) THEN Canned(table, "recommend")
     ELSE Canned(table, "unmatched")

\* what gemini_model.start_chat(...).send_message(...) does: a text, or an exception
GeminiOutcomes == {"raises", "answers"}

\* a request without an Authorization header
NoToken == [identity |-> None, role |-> None]

\* handle_chat behind @jwt_required(): the possible responses
ChatResponses(token, query, lang_field, gemini_enabled) ==
  IF token = NoToken
    THEN {[status |-> 401, msg |-> "Missing Authorization Header"]}
  ELSE
    LET raw == DictGetDefault(query, <<>>)
        lang == DictGetDefault(lang_field, lang_en)
    IN IF ~IsStr(raw)
         THEN \* data.get("query", "") is None: None.lower() raises, nothing catches it
              {[status |-> 500, msg |-> "Internal Server Error"]}
       ELSE
         LET rule == RuleResponse(lower(raw), lang)
             default == Canned(ResponsesTable(lang), "default")
             Ok(text) == [status |-> 200, msg |-> "", response |-> text]
         IN IF rule.kind # "unmatched" THEN {Ok(rule)}
            ELSE IF gemini_enabled
              THEN {IF gemini = "answers" THEN Ok(Generated(g_text)) ELSE Ok(default)
                    : gemini \in GeminiOutcomes}
            ELSE {Ok(default)}

PriceQuery(commodity, market) == q_what_is_the_price_of \o commodity \o q_in \o market

CommodityNames == {commodity_keywords[i].commodity_en : i \in 1..Len(commodity_keywords)}
MarketNames == {MARKET_KEYWORDS[i] : i \in 1..Len(MARKET_KEYWORDS)}

OtherQueries ==
  {Absent, None, q_empty, q_namaste, greet_hin, q_Hello, q_joke, q_WHEAT, q_price_today,
   q_weather, q_recommend, q_dam, q_gehu_mumbai, q_hi_wheat_weather, q_dam_weather_recommend}

ChatLangs == {Absent, None, lang_en, lang_hi, lang_kn, lang_fr}

FarmerToken == create_access_token(u_farmer, r_farmer)

\* the request bodies the model sends: every English price question about a commodity and a
\* market of the tables, and the other queries in every language
ChatRequests ==
  {[op |-> "chat", token |-> FarmerToken, query |-> PriceQuery(c, m), lang |-> lang_en]
     : c \in CommodityNames, m \in MarketNames}
  \cup {[op |-> "chat", token |-> FarmerToken, query |-> q, lang |-> l]
          : q \in OtherQueries \cup {PriceQuery(commodity_keywords[4].commodity_en, MARKET_KEYWORDS[6])}, l \in ChatLangs}
  \cup {[op |-> "chat", token |-> NoToken, query |-> q_Hello, lang |-> lang_en]}

HandleChat ==
  \E r \in ChatRequests :
    /\ req' = r
    /\ resp' \in ChatResponses(r.token, r.query, r.lang, GEMINI_ENABLED)
    /\ resolved' = None
    /\ UNCHANGED <<users, otp_store, twilio_client, GEMINI_ENABLED,
                   issued, superseded, consumed, th>>

----------------------------------------------------------------------------
\* Specifications

EmptyStore == [u \in {} |-> None]

\* the threads of the server and a thread that serves no request
Threads == 1..MaxThreads
IdleThread == [pc |-> "idle", op |-> "none", otp |-> None, new_password |-> None,
               username |-> None, after |-> {}, resp |-> NoResponse]

Init ==
  /\ users = SeedUsers
  /\ otp_store = EmptyStore
  /\ twilio_client \in BOOLEAN
  /\ GEMINI_ENABLED \in BOOLEAN
  /\ req = NoRequest
  /\ resp = NoResponse
  /\ resolved = None
  /\ issued = EmptyStore
  /\ superseded = EmptyStore
  /\ consumed = {}
  /\ th = [t \in Threads |-> IdleThread]

\* the identity service: any sequence of login, register, send-otp and reset-password
\* (none of them reads GEMINI_ENABLED)
InitIdentity == Init /\ GEMINI_ENABLED = FALSE

Next == Login \/ Register \/ SendOtp \/ ResetPassword

Spec == InitIdentity /\ [][Next]_vars

\* the chat endpoint (it does not read twilio_client)
InitChat == Init /\ twilio_client = FALSE

SpecChat == InitChat /\ [][HandleChat]_vars

----------------------------------------------------------------------------
\* send-otp and reset-password in concurrent threads

\* the user the concurrent requests name, the codes they submit and the passwords they set
RaceIdentifier == u_farmer
RaceOtps == {str(n) : n \in OtpDraws}
RaceNewPasswords == {p_new1, p_pw1}

\* the variables of the start-up and of the one-request-at-a-time specifications
sequential == <<twilio_client, GEMINI_ENABLED, req, resp, resolved, issued, superseded, consumed>>

\* thread t moves on with these locals
Goto(t, fields) == th' = [th EXCEPT ![t] = fields]

\* thread t returns this response
Return(t, response) == Goto(t, [th[t] EXCEPT !.pc = "done", !.resp = response])

\* the threads whose send-otp has returned
SendOtpReturned ==
  {s \in Threads : th[s].op = "send-otp" /\ th[s].pc = "done" /\ th[s].resp.status = 200}

\* a send-otp request arrives and is given to the first free thread
BeginSendOtp ==
  \E t \in Threads :
    /\ th[t].pc = "idle"
    /\ IF t = 1 THEN TRUE ELSE th[t - 1].pc # "idle"
    /\ Goto(t, [IdleThread EXCEPT !.pc = "send_otp_select", !.op = "send-otp"])
    /\ UNCHANGED <<users, otp_store>>
    /\ UNCHANGED sequential

\* a reset-password request arrives and is given to the first free thread
BeginResetPassword ==
  \E t \in Threads, otp \in RaceOtps, new_password \in RaceNewPasswords :
    /\ th[t].pc = "idle"
    /\ IF t = 1 THEN TRUE ELSE th[t - 1].pc # "idle"
    /\ Goto(t, [IdleThread EXCEPT !.pc = "reset_select", !.op = "reset-password", !.otp = otp,
                                  !.new_password = new_password, !.after = SendOtpReturned])
    /\ UNCHANGED <<users, otp_store>>
    /\ UNCHANGED sequential

\* send_otp: the SELECT and `if not user`
SendOtpSelect ==
  \E t \in Threads :
    /\ th[t].pc = "send_otp_select"
    /\ LET found == SelectByIdentifier(users, RaceIdentifier) IN
       IF found = {} THEN Return(t, Response(404, "User not found"))
       ELSE \E user \in found :
              Goto(t, [th[t] EXCEPT !.pc = "send_otp_store", !.username = user.username])
    /\ UNCHANGED <<users, otp_store>>
    /\ UNCHANGED sequential

\* send_otp: otp = str(random.randint(...)); otp_store[found_username] = otp
SendOtpStore ==
  \E t \in Threads, otp \in OtpDraws :
    /\ th[t].pc = "send_otp_store"
    /\ otp_store' = OtpPut(otp_store, th[t].username, str(otp))
    /\ Goto(t, [th[t] EXCEPT !.pc = "send_otp_sms", !.otp = str(otp)])
    /\ UNCHANGED users
    /\ UNCHANGED sequential

\* send_otp: the SMS, if any, and the return
SendOtpReturn ==
  \E t \in Threads, sms \in SmsOutcomes :
    /\ th[t].pc = "send_otp_sms"
    /\ Return(t, SmsResponse(twilio_client, sms))
    /\ UNCHANGED <<users, otp_store>>
    /\ UNCHANGED sequential

\* reset_password: the SELECT and `if not user`
ResetSelect ==
  \E t \in Threads :
    /\ th[t].pc = "reset_select"
    /\ LET found == SelectByIdentifier(users, RaceIdentifier) IN
       IF found = {} THEN Return(t, Response(404, "User not found"))
       ELSE \E user \in found :
              Goto(t, [th[t] EXCEPT !.pc = "reset_check_in", !.username = user.username])
    /\ UNCHANGED <<users, otp_store>>
    /\ UNCHANGED sequential

\* reset_password: `user_to_reset not in otp_store`, the first operand of the `or`
ResetCheckIn ==
  \E t \in Threads :
    /\ th[t].pc = "reset_check_in"
    /\ IF th[t].username \notin DOMAIN otp_store
         THEN Return(t, Response(400, "Invalid or expired OTP"))
       ELSE Goto(t, [th[t] EXCEPT !.pc = "reset_check_get"])
    /\ UNCHANGED <<users, otp_store>>
    /\ UNCHANGED sequential

\* reset_password: `otp_store.get(user_to_reset) != otp`, the second operand
ResetCheckGet ==
  \E t \in Threads :
    /\ th[t].pc = "reset_check_get"
    /\ LET stored == IF th[t].username \in DOMAIN otp_store
                       THEN otp_store[th[t].username] ELSE None
       IN IF stored # th[t].otp
            THEN Return(t, Response(400, "Invalid or expired OTP"))
          ELSE Goto(t, [th[t] EXCEPT !.pc = "reset_update"])
    /\ UNCHANGED <<users, otp_store>>
    /\ UNCHANGED sequential

\* reset_password: generate_password_hash, the UPDATE and the commit
ResetUpdate ==
  \E t \in Threads :
    /\ th[t].pc = "reset_update"
    /\ IF ~IsStr(th[t].new_password)
         THEN /\ Return(t, Response(500, "Failed to reset password"))
              /\ UNCHANGED users
       ELSE \E salt \in Salts :
              /\ users' = UpdatePassword(users, th[t].username,
                                         generate_password_hash(th[t].new_password, salt))
              /\ Goto(t, [th[t] EXCEPT !.pc = "reset_del_in"])
    /\ UNCHANGED otp_store
    /\ UNCHANGED sequential

\* reset_password: `if user_to_reset in otp_store`, and the return when it is not
ResetDelIn ==
  \E t \in Threads :
    /\ th[t].pc = "reset_del_in"
    /\ IF th[t].username \in DOMAIN otp_store
         THEN Goto(t, [th[t] EXCEPT !.pc = "reset_del"])
       ELSE Return(t, Response(200, "Password updated successfully"))
    /\ UNCHANGED <<users, otp_store>>
    /\ UNCHANGED sequential

\* reset_password: `del otp_store[user_to_reset]` and the return; del raises KeyError when
\* another thread removed the entry since the test, which the handler's except catches
ResetDel ==
  \E t \in Threads :
    /\ th[t].pc = "reset_del"
    /\ IF th[t].username \in DOMAIN otp_store
         THEN /\ otp_store' = OtpDel(otp_store, th[t].username)
              /\ Return(t, Response(200, "Password updated successfully"))
       ELSE /\ Return(t, Response(500, "Failed to reset password"))
            /\ UNCHANGED otp_store
    /\ UNCHANGED users
    /\ UNCHANGED sequential

\* the requests run without Twilio and without Gemini, which none of their races involves
InitRace == Init /\ twilio_client = FALSE /\ GEMINI_ENABLED = FALSE

NextRace ==
  \/ BeginSendOtp \/ BeginResetPassword
  \/ SendOtpSelect \/ SendOtpStore \/ SendOtpReturn
  \/ ResetSelect \/ ResetCheckIn \/ ResetCheckGet \/ ResetUpdate \/ ResetDelIn \/ ResetDel

SpecRace == InitRace /\ [][NextRace]_vars

----------------------------------------------------------------------------
\* Properties

\* the stored hash of username u verifies password pw
PasswordIs(table, u, pw) ==
  /\ IsStr(pw)
  /\ \E r \in Rows(table) : r.username = u
  /\ \A r \in Rows(table) : r.username = u => check_password_hash(r.password_hash, pw)

\* the step just taken handled a request of this kind
Handled(op) == req'.op = op

C3_ResetOnlyWithStoredOtp ==
  [][ Handled("reset-password")
      => /\ users' # users
              => (resolved' \in DOMAIN otp_store /\ otp_store[resolved'] = req'.otp)
         /\ (resolved' # None /\ resolved' \notin DOMAIN otp_store)
              => (resp' = Response(400, "Invalid or expired OTP") /\ users' = users) ]_vars

\* C3 witness: a code was submitted for a user who was never issued one, and rejected
C3_Witness ==
  /\ req.op = "reset-password"
  /\ resolved # None
  /\ resolved \notin DOMAIN issued
  /\ req.otp # None
  /\ resp.status = 400

\* C4: right after an accepted registration a login with the same username and password
\* returns 200 and a token whose role is 'farmer'; every successful login returns a token
\* for the requested username whose role is the role stored in that user's row.
C4_LoginAfterRegister ==
  [][ /\ (Handled("register") /\ resp'.status = 201)
           => \A r \in LoginResponses(users', req'.username, req'.password) :
                r.status = 200 /\ r.access_token.role = r_farmer
      /\ (Handled("login") /\ resp'.status = 200)
           => /\ resp'.access_token.identity = req'.username
              /\ \E row \in Rows(users) :
                   row.username = req'.username /\ resp'.access_token.role = row.role
              /\ req'.username = u_analyst => resp'.access_token.role = r_analyst ]_vars

\* C4 witness: the registered user has logged in with the registration password
C4_Witness ==
  /\ req.op = "login"
  /\ req.username = u_ravi
  /\ req.password = p_pw1
  /\ resp.status = 200
  /\ resp.access_token.role = r_farmer

UsersUnique(table) ==
  \A i, j \in 1..Len(table) :
    i # j => /\ table[i].username # table[j].username
             /\ table[i].email # table[j].email
             /\ table[i].mobile # table[j].mobile

\* the request's four fields are present and its mobile is in international format
WellFormed(data) ==
  /\ \A f \in {"username", "password", "email", "mobile"} : data[f] # None /\ data[f] # <<>>
  /\ data.mobile[1] = "+"
  /\ Len(data.mobile) > 10

\* the columns on which the request equals an existing row
Collisions(table, data) ==
  {c \in {"username", "email", "mobile"} : \E i \in 1..Len(table) : table[i][c] = data[c]}

\* C5: no two rows share a username, an email or a mobile; a well-formed registration that
\* collides only on username / email / mobile gets 409 with the message naming that field;
\* a registration that is not accepted leaves the table as it was, and an accepted one
\* leaves the existing rows as they were.
C5_Uniqueness ==
  /\ []UsersUnique(users)
  /\ [][ Handled("register")
         => /\ (WellFormed(req') /\ Collisions(users, req') = {"username"})
                 => resp' = Response(409, "Username already exists")
            /\ (WellFormed(req') /\ Collisions(users, req') = {"email"})
                 => resp' = Response(409, "Email already exists")
            /\ (WellFormed(req') /\ Collisions(users, req') = {"mobile"})
                 => resp' = Response(409, "Mobile number already exists")
            /\ resp'.status # 201 => users' = users
            /\ SubSeq(users', 1, Len(users)) = users ]_vars

\* C5 witness: a registration colliding on the email alone has been rejected
C5_Witness ==
  /\ req.op = "register"
  /\ WellFormed(req)
  /\ Collisions(users, req) = {"email"}
  /\ resp = Response(409, "Email already exists")

\* C6 (as stated): a login that does not carry the correct password of an existing user gets
\* the response an unregistered username gets: 401 "Bad username or password".
C6_NoUserEnumeration ==
  [][ (Handled("login") /\ ~PasswordIs(users, req'.username, req'.password))
      => /\ resp' = Response(401, "Bad username or password")
         /\ resp' \in LoginResponses(users, u_nobody, req'.password) ]_vars

\* C7: a registration with a field missing or empty, or with a mobile that does not start
\* with '+' or is not longer than 10, gets 400 and adds no row; a well-formed registration
\* without collision gets 201 and its row is added.
C7_RegisterValidation ==
  [][ Handled("register")
      => /\ ~WellFormed(req') => (resp'.status = 400 /\ users' = users)
         /\ (WellFormed(req') /\ Collisions(users, req') = {})
              => /\ resp' = Response(201, "User created successfully")
                 /\ Len(users') = Len(users) + 1
                 /\ users'[Len(users')].username = req'.username
                 /\ users'[Len(users')].email = req'.email
                 /\ users'[Len(users')].mobile = req'.mobile ]_vars

\* C7 witness: a mobile starting with '+' of length exactly 10 has been rejected
C7_Witness ==
  /\ req.op = "register"
  /\ \A f \in {"username", "password", "email"} : req[f] # None /\ req[f] # <<>>
  /\ req.mobile[1] = "+"
  /\ Len(req.mobile) = 10
  /\ resp.status = 400

\* the outcomes of a reset-password for user u with its live code and new_password np
ResetWithLiveCode(table, store, identifier, u, np) ==
  {o \in ResetOutcomes(table, store, identifier, store[u], np) : o.resolved = u}

C9_PriceQueryNamesCommodityAndMarket ==
  \A c \in CommodityNames, m \in MarketNames :
    (req.op = "chat" /\ req.token # NoToken /\ req.lang = lang_en /\ req.query = PriceQuery(c, m))
      => /\ resp.status = 200
         /\ resp.response = PriceDetail(lang_en, capitalize(c), capitalize(m))

\* C10 (as stated): for an authenticated caller the chat endpoint returns 200 with a text
\* for every request body; when no rule matches and Gemini is not configured the text is the
\* default response of the selected language.
C10_ChatAlways200 ==
  (req.op = "chat" /\ req.token # NoToken)
    => /\ resp.status = 200
       /\ resp.response.kind \in {"greeting", "price_detail", "price", "weather", "recommend",
                                  "default", "generated"}
       /\ (~GEMINI_ENABLED /\ resp.response.kind \notin {"greeting", "price_detail", "price",
                                                         "weather", "recommend"})
            => resp.response = Canned(ResponsesTable(DictGetDefault(req.lang, lang_en)), "default")

\* the identifiers of a row: its username, its email and its mobile
IdentifiersOf(row) == {row.username, row.email, row.mobile}

\* C11 (as stated): in every reachable credential table, for every user U, a send-otp whose
\* identifier is U's username, email or mobile resolves to U and stores the code under
\* U.username, and a reset-password whose identifier is any of the three resolves to U and,
\* submitting U's stored code with a string new_password, sets U's password.
C11_IdentifiersInterchangeable ==
  [][ /\ Handled("send-otp")
           => \A U \in Rows(users) :
                req'.identifier \in IdentifiersOf(U)
                  => /\ resolved' = U.username
                     /\ U.username \in DOMAIN otp_store'
                     /\ otp_store'[U.username] = issued'[U.username]
      /\ Handled("reset-password")
           => \A U \in Rows(users) :
                req'.username \in IdentifiersOf(U)
                  => /\ resolved' = U.username
                     /\ (OtpMatches(otp_store, U.username, req'.otp) /\ IsStr(req'.new_password))
                          => PasswordIs(users', U.username, req'.new_password) ]_vars

\* some keyword of the set occurs in the query
ContainsSome(keywords, query) == \E k \in keywords : Contains(query, k)

\* every keyword of every commodity
AllCommodityKeywords ==
  UNION {{commodity_keywords[i].keywords[j] : j \in 1..Len(commodity_keywords[i].keywords)}
           : i \in 1..Len(commodity_keywords)}

\* the intent of a lower-cased query, by the ordered rules
Intent(query) ==
  IF ContainsSome({greet_hello, greet_hi, greet_kn, greet_hin}, query) THEN "greeting"
  ELSE IF ContainsSome(AllCommodityKeywords, query) THEN "price_detail"
  ELSE IF ContainsSome({bk_price_en, bk_price_kn, bk_price_hi}, query) THEN "price"
  ELSE IF ContainsSome({bk_weather_en, bk_weather_kn, bk_weather_hi}, query) THEN "weather"
  ELSE IF ContainsSome({bk_recommend_en, bk_recommend_kn, bk_recommend_hi}, query) THEN "recommend"
  ELSE "default"

\* C12: for an authenticated request whose query is a string (or absent: the empty string)
\* the response is 200 and its text is the one of the first rule the lower-cased query
\* matches, in the order greeting, commodity (price detail), price, weather, recommend; when
\* none matches and Gemini is not configured it is the default text. The text comes from the
\* table of the request's language, from the 'en' table when the language is not en/hi/kn.
C12_IntentOrder ==
  (req.op = "chat" /\ req.token # NoToken /\ req.query # None)
    => LET query == lower(IF req.query = Absent THEN <<>> ELSE req.query)
           lang == IF req.lang = Absent THEN lang_en ELSE req.lang
           table == IF lang \in {lang_en, lang_hi, lang_kn} THEN lang ELSE lang_en
       IN /\ resp.status = 200
          /\ (Intent(query) # "default" \/ ~GEMINI_ENABLED)
               => (resp.response.kind = Intent(query) /\ resp.response.table = table)

\* C12 witness: a query holding a greeting, a commodity and a weather keyword, asked in a
\* language without a table, has been answered with the English greeting
C12_Witness ==
  /\ req.op = "chat"
  /\ req.token # NoToken
  /\ req.query = q_hi_wheat_weather
  /\ req.lang = lang_fr
  /\ resp.status = 200
  /\ resp.response = Canned(lang_en, "greeting")

\* the code of U is live: a reset-password submitting it passes the OTP check
Live(store, code) ==
  \E user \in SelectByIdentifier(users, RaceIdentifier) : OtpMatches(store, user.username, code)

\* C13 (as stated): a code that a returned send-otp stored for U, and that is U's live code,
\* stops being live only by the step of a send-otp for U that stores its own code, or by
\* the step of a successful reset-password that had submitted this very code.
C13_LiveUntilConsumedOrOverwritten ==
  [][ \A s \in SendOtpReturned :
        (Live(otp_store, th[s].otp) /\ ~Live(otp_store', th[s].otp))
          => \E t \in Threads :
               \/ /\ th[t].op = "send-otp"
                  /\ th[t].pc = "send_otp_store"
                  /\ th'[t].pc = "send_otp_sms"
               \/ /\ th[t].op = "reset-password"
                  /\ th[t].otp = th[s].otp
                  /\ th[t].pc = "reset_del"
                  /\ th'[t].resp.status = 200 ]_vars

\* C14 (as stated): when one send-otp has run and returned, and two reset-password requests
\* that arrived after it both submitted the code it generated, then once both have returned
\* at most one of them has returned 200 and the other has returned 400.
C14_ConcurrentSingleUse ==
  \A s, r1, r2 \in Threads :
    ( /\ r1 # r2
      /\ SendOtpReturned = {s}
      /\ \A t \in Threads : th[t].op = "send-otp" => t = s
      /\ \A r \in {r1, r2} : /\ th[r].op = "reset-password"
                             /\ th[r].pc = "done"
                             /\ th[r].after = {s}
                             /\ th[r].otp = th[s].otp )
    => /\ ~(th[r1].resp.status = 200 /\ th[r2].resp.status = 200)
       /\ th[r1].resp.status = 200 => th[r2].resp.status = 400

\* the passwords a user may have had before a reset
KnownPasswords == {p_farmer123, p_analyst123, p_pw1, p_new1}

\* C15: after a reset-password for U succeeded with new password p, every login as U with p
\* returns 200 and every login as U with the password U had before, if it differs from p,
\* returns 401; the reset changed no row but U's and nothing in U's row but password_hash,
\* it left every other user's OTP entry as it was, and no step removes a row of users.
C15_ResetFrame ==
  [][ /\ (Handled("reset-password") /\ resp'.status = 200)
           => LET U == resolved'
                  p == req'.new_password
              IN /\ \A r \in LoginResponses(users', U, p) : r.status = 200
                 /\ \A old \in KnownPasswords :
                      (old # p /\ PasswordIs(users, U, old))
                        => \A r \in LoginResponses(users', U, old) :
                             r = Response(401, "Bad username or password")
                 /\ Len(users') = Len(users)
                 /\ \A i \in 1..Len(users) :
                      IF users[i].username = U
                        THEN users'[i] = [users[i] EXCEPT !.password_hash = users'[i].password_hash]
                      ELSE users'[i] = users[i]
                 /\ DOMAIN otp_store' \subseteq DOMAIN otp_store
                 /\ \A u \in DOMAIN otp_store \ {U} :
                      u \in DOMAIN otp_store' /\ otp_store'[u] = otp_store[u]
      /\ Len(users') >= Len(users)
      /\ \A i \in 1..Len(users) : users'[i].username = users[i].username ]_vars

\* C15 witness: farmer's password has been reset from 'farmer123' to another one while
\* another user held an OTP entry, which is still there
C15_Witness ==
  /\ req.op = "reset-password"
  /\ resp.status = 200
  /\ resolved = u_farmer
  /\ PasswordIs(users, u_farmer, req.new_password)
  /\ req.new_password # p_farmer123
  /\ consumed = {u_farmer}
  /\ DOMAIN otp_store # {}
  /\ u_farmer \notin DOMAIN otp_store

====
